---- MODULE Spec2Model ----
(***************************************************************************)
(* Code Assembler Pro: the delta reconciler (delta.py), the delta filter   *)
(* of the assembler (core.py) and the rebuilder (rebuilder.py).            *)
(*                                                                         *)
(* A path is a sequence of one-character strings, so that the string       *)
(* tests of the code (endswith, startswith, substring, case folding) are   *)
(* computed on characters, and the path operations (commonpath, relpath,   *)
(* Path.name) on "/"-separated segments.                                   *)
(***************************************************************************)
EXTENDS Integers, Sequences, FiniteSets, TLC

(***************************************************************************)
(* Bounds of the model.                                                    *)
(***************************************************************************)
MaxFiles == 2      \* current candidates handed to get_delta
MaxKeys == 2       \* entries of the "files" mapping of a metadata block
MaxBlocks == 2     \* file content blocks of a document
MaxSecond == 179   \* latest modification time, in seconds, of the minute test

(***************************************************************************)
(* Strings.                                                                *)
(***************************************************************************)
StartsWith(s, t) == Len(t) <= Len(s) /\ SubSeq(s, 1, Len(t)) = t

EndsWith(s, t) == Len(t) <= Len(s) /\ SubSeq(s, Len(s) - Len(t) + 1, Len(s)) = t

Contains(s, t) == \E i \in 1..(Len(s) - Len(t) + 1) : SubSeq(s, i, i + Len(t) - 1) = t

LowerChar(ch) ==
    CASE ch = "A" -> "a"
      [] ch = "C" -> "c"
      [] ch = "D" -> "d"
      [] OTHER -> ch

Lower(s) == [i \in 1..Len(s) |-> LowerChar(s[i])]

(***************************************************************************)
(* Paths: segments, Path(p).name, os.path.dirname, commonpath, relpath.    *)
(***************************************************************************)
RECURSIVE Split(_)
Split(p) ==
    IF \A i \in 1..Len(p) : p[i] # "/"
    THEN <<p>>
    ELSE LET i == CHOOSE j \in 1..Len(p) :
                      p[j] = "/" /\ \A k \in 1..(j - 1) : p[k] # "/"
         IN  <<SubSeq(p, 1, i - 1)>> \o Split(SubSeq(p, i + 1, Len(p)))

\* the segments that name something: empty segments and "." are dropped
Segments(p) == SelectSeq(Split(p), LAMBDA s : s # <<>> /\ s # <<".">>)

RECURSIVE JoinSegs(_)
JoinSegs(segs) ==
    IF segs = <<>> THEN <<>>
    ELSE IF Len(segs) = 1 THEN segs[1]
    ELSE segs[1] \o <<"/">> \o JoinSegs(Tail(segs))

AbsJoin(segs) == <<"/">> \o JoinSegs(segs)

PathName(p) ==
    LET segs == Segments(p)
    IN  IF segs = <<>> THEN <<>> ELSE segs[Len(segs)]

DirName(p) ==
    LET segs == Segments(p)
    IN  IF segs = <<>> THEN <<"/">> ELSE AbsJoin(SubSeq(segs, 1, Len(segs) - 1))

IsSegPrefix(a, b) == Len(a) <= Len(b) /\ SubSeq(b, 1, Len(a)) = a

\* os.path.commonpath of a non-empty set of absolute paths
CommonPath(paths) ==
    LET segsOf == {Segments(p) : p \in paths}
        one == CHOOSE s \in segsOf : TRUE
        n == CHOOSE m \in 0..Len(one) :
                 /\ \A s \in segsOf : IsSegPrefix(SubSeq(one, 1, m), s)
                 /\ \A k \in (m + 1)..Len(one) :
                        \E s \in segsOf : ~IsSegPrefix(SubSeq(one, 1, k), s)
    IN  AbsJoin(SubSeq(one, 1, n))

\* os.path.relpath(path, start) of two absolute paths, "\" replaced by "/"
RelPath(path, start) ==
    LET ps == Segments(path)
        ss == Segments(start)
        lim == IF Len(ps) < Len(ss) THEN Len(ps) ELSE Len(ss)
        n == CHOOSE m \in 0..lim :
                 /\ SubSeq(ps, 1, m) = SubSeq(ss, 1, m)
                 /\ (m < lim => ps[m + 1] # ss[m + 1])
        ups == [i \in 1..(Len(ss) - n) |-> <<".", ".">>]
        rest == ups \o SubSeq(ps, n + 1, Len(ps))
    IN  IF rest = <<>> THEN <<".">> ELSE JoinSegs(rest)

(***************************************************************************)
(* The project tree and the documents.                                     *)
(*                                                                         *)
(* Cwd is the directory the snapshot keys are relative to; the file a      *)
(* snapshot key k names is AbsOf(k).  RelPaths is the universe of          *)
(* snapshot-relative paths of the model.                                   *)
(***************************************************************************)
Cwd == <<"/", "r">>

AbsOf(k) == Cwd \o <<"/">> \o k

RelPaths ==
    { <<"a", "/", "c">>,
      <<"b", "/", "c">>,
      <<"a", "/", "b", "/", "c">>,
      <<"d">> }

AbsPaths == {AbsOf(k) : k \in RelPaths}

\* The order in which process_directory visits them (items sorted by name)
TraversalOrder ==
    << <<"a", "/", "b", "/", "c">>, <<"a", "/", "c">>, <<"b", "/", "c">>, <<"d">> >>

TraversalRank(abs_path) ==
    CHOOSE i \in 1..Len(TraversalOrder) : AbsOf(TraversalOrder[i]) = abs_path

\* Modification times in seconds: 00:00:59 and 00:01:00
Mtimes == {59, 60}

SecondsPerMinute == 60

\* datetime.replace(second=0, microsecond=0), as the minute number
TruncMinute(t) == t \div SecondsPerMinute

\* strftime("%Y-%m-%d %H:%M") of a minute, the form the metadata records
FormatMinute(m) == IF m = 0 THEN "00:00" ELSE IF m = 1 THEN "00:01" ELSE "00:02"

Minutes == {TruncMinute(t) : t \in Mtimes}

DateStrings == {FormatMinute(m) : m \in Minutes}

\* datetime.strptime(date_str, "%Y-%m-%d %H:%M"): the minute, or ValueError
ParsesAsDate(s) == s \in DateStrings

ParseDate(s) == CHOOSE m \in Minutes : FormatMinute(m) = s

\* What a prior document can be: no file, no metadata marker, a marker whose
\* payload is not JSON, a JSON payload that is not an object, or a record.
DocKinds == {"nofile", "nomarker", "badjson", "notrecord", "record"}

VARIABLES
    current_files,   \* get_delta: the absolute paths of the current candidates
    mtime,           \* os.path.getmtime of each candidate, in seconds
    gone,            \* candidates whose stat raises OSError
    docKind,         \* the prior document (--since, or the one to rebuild)
    files_meta,      \* the "files" mapping of its metadata, in insertion order
    d_pc,            \* get_delta / assemble: "idle", "loop", "done", "filtered"
    snapshot,        \* get_delta: the decoded snapshot, in insertion order
    common_root,     \* get_delta: common root of the candidates
    pending,         \* get_delta: candidates the loop has not visited yet
    match_of,        \* get_delta: match_key of each visited candidate
    modified,
    added,
    deleted,
    matched_keys,
    since_filter,    \* CodebaseAssembler.since_filter
    deleted_files,   \* CodebaseAssembler.deleted_files
    unprocessed,     \* assemble: candidates process_file has not seen yet
    toc_entries,     \* CodebaseAssembler.toc_entries: the files emitted
    blocks,          \* the file content blocks of the document, in order
    dry_run,         \* CodebaseRebuilder.dry_run
    platform,        \* "posix" or "nt": the path flavour pathlib joins with
    rb_pc,           \* rebuild: "idle", "loop", "returned", "raised"
    todo,            \* rebuild: the keys of files_to_rebuild still to visit
    created_count,
    errors,          \* rebuild: the diagnostics, in order
    disk,            \* files written: destination |-> content
    dirs,            \* directories created
    skipped_files,   \* assemble: the files stats.skip_file was called for
    metadata_block,  \* assemble: the "files" mapping of the new document
    run_no,          \* the number of the assemble run, in a chain of runs
    history,         \* what each earlier run of the chain emitted and found
    delta_summary,   \* the lines format_delta_summary returned
    cfg_pc,          \* AssemblerConfig: "idle", "ready" or "raised"
    given_extensions,\* the extensions list the configuration was given
    extensions,      \* AssemblerConfig.extensions
    exact_filenames  \* AssemblerConfig.exact_filenames

rebuildVars ==
    <<blocks, dry_run, platform, rb_pc, todo, created_count, errors, disk, dirs>>

deltaVars ==
    <<current_files, mtime, gone, docKind, files_meta, d_pc, snapshot,
      common_root, pending, match_of, modified, added, deleted, matched_keys,
      since_filter, deleted_files, unprocessed, toc_entries>>

chainVars == <<skipped_files, metadata_block, run_no, history>>

pureVars ==
    <<delta_summary, cfg_pc, given_extensions, extensions, exact_filenames>>

\* no match: None, and the empty key, which "if match_key:" treats alike
None == <<>>

\* Sequences without repetition of at most n elements of S
RECURSIVE SeqsUpTo(_, _)
SeqsUpTo(S, n) ==
    IF n = 0 THEN {<<>>}
    ELSE LET shorter == SeqsUpTo(S, n - 1)
         IN  shorter \cup
             {Append(q, x) : q \in {r \in shorter : Len(r) = n - 1}, x \in S}

DistinctKeys(q) == \A i, j \in 1..Len(q) : i # j => q[i].key # q[j].key

\* The "files" mappings of the model: at most MaxKeys entries with distinct
\* keys, each with a recorded date string; the entries of the keys in
\* badDated may also carry a string that is no date.
MetaEntries(keys, badDated) ==
    [key : keys, date : DateStrings] \cup [key : badDated, date : {"n/a"}]

MetaSeqs(keys, badDated) ==
    {q \in SeqsUpTo(MetaEntries(keys, badDated), MaxKeys) : DistinctKeys(q)}

(***************************************************************************)
(* delta.py                                                                *)
(***************************************************************************)
\* extract_metadata: the {path: datetime} dict, in insertion order; every
\* failure (unreadable file, no marker, bad JSON, not a record) gives {}
\* and an entry whose date does not parse is left out.
RECURSIVE ValidEntries(_)
ValidEntries(q) ==
    IF q = <<>> THEN <<>>
    ELSE IF ParsesAsDate(q[1].date)
         THEN <<[key |-> q[1].key, dt |-> ParseDate(q[1].date)]>>
                  \o ValidEntries(Tail(q))
         ELSE ValidEntries(Tail(q))

extract_metadata(kind, entries) ==
    IF kind = "record" THEN ValidEntries(entries) ELSE <<>>

SnapKeys(snap) == {snap[i].key : i \in 1..Len(snap)}

SnapDate(snap, k) == snap[CHOOSE i \in 1..Len(snap) : snap[i].key = k].dt

\* os.path.isfile
IsFile(p, files, lost) == p \in files /\ p \notin lost

\* get_delta, step 2: the common root of the current candidates
CommonRoot(files, lost) ==
    IF files = {} THEN Cwd
    ELSE LET c == CommonPath(files)
         IN  IF IsFile(c, files, lost) THEN DirName(c) ELSE c

\* get_delta, step 3: the path of a candidate relative to the common root
RelOf(abs_path, root) ==
    LET r == RelPath(abs_path, root)
    IN  IF StartsWith(r, <<".", "/">>) THEN SubSeq(r, 3, Len(r)) ELSE r

\* the suffix test of one snapshot key
SuffixMatches(rel_path, snap_key) ==
    /\ EndsWith(rel_path, snap_key) \/ EndsWith(snap_key, rel_path)
    /\ PathName(rel_path) = PathName(snap_key)

\* A matcher that pairs by basename alone, without exact precedence
MatchKeyBasenameOnly(rel_path, snap) ==
    IF \E i \in 1..Len(snap) : PathName(rel_path) = PathName(snap[i].key)
    THEN LET i == CHOOSE j \in 1..Len(snap) :
                      /\ PathName(rel_path) = PathName(snap[j].key)
                      /\ \A k \in 1..(j - 1) :
                             PathName(rel_path) # PathName(snap[k].key)
         IN  snap[i].key
    ELSE <<>>

\* A matcher that runs the suffix scan without trying equality first
MatchKeyNoExactPrecedence(rel_path, snap) ==
    IF \E i \in 1..Len(snap) :
           rel_path = snap[i].key \/ SuffixMatches(rel_path, snap[i].key)
    THEN LET i == CHOOSE j \in 1..Len(snap) :
                      /\ rel_path = snap[j].key \/ SuffixMatches(rel_path, snap[j].key)
                      /\ \A k \in 1..(j - 1) :
                             /\ rel_path # snap[k].key
                             /\ ~SuffixMatches(rel_path, snap[k].key)
         IN  snap[i].key
    ELSE <<>>

\* match_key of a relative path: the key itself, else the first key of
\* the snapshot that passes the suffix test, else None
MatchKey(rel_path, snap) ==
    IF rel_path \in SnapKeys(snap) THEN rel_path
    ELSE IF \E i \in 1..Len(snap) : SuffixMatches(rel_path, snap[i].key)
         THEN LET i == CHOOSE j \in 1..Len(snap) :
                           /\ SuffixMatches(rel_path, snap[j].key)
                           /\ \A k \in 1..(j - 1) :
                                  ~SuffixMatches(rel_path, snap[k].key)
              IN  snap[i].key
         ELSE None

\* A comparison to the second, without the truncation
has_changed_to_the_second(abs_path, snapshot_dt, mt, lost) ==
    IF abs_path \in lost THEN TRUE
    ELSE mt[abs_path] # snapshot_dt * SecondsPerMinute

\* A comparison that takes a file it cannot stat for unchanged
has_changed_fail_closed(abs_path, snapshot_dt, mt, lost) ==
    IF abs_path \in lost THEN FALSE
    ELSE TruncMinute(mt[abs_path]) # snapshot_dt

\* _has_changed: an OSError counts as changed
has_changed(abs_path, snapshot_dt, mt, lost) ==
    IF abs_path \in lost THEN TRUE
    ELSE TruncMinute(mt[abs_path]) # snapshot_dt

\* No file was skipped, no metadata was generated, and this is the first run
AssembleIdle ==
    /\ skipped_files = {}
    /\ metadata_block = <<>>
    /\ run_no = 1
    /\ history = <<>>

\* No summary was formatted and no configuration was constructed
PureIdle ==
    /\ delta_summary = <<>>
    /\ cfg_pc = "idle"
    /\ given_extensions = <<>>
    /\ extensions = <<>>
    /\ exact_filenames = <<>>

\* No rebuild is running and the document has no content blocks
RebuildIdle ==
    /\ blocks = <<>>
    /\ dry_run = FALSE
    /\ platform = "posix"
    /\ rb_pc = "idle"
    /\ todo = <<>>
    /\ created_count = 0
    /\ errors = <<>>
    /\ disk = << >>
    /\ dirs = {}

\* A filter that forgets the added files
filter_modified_only(mod, add, del) == [to_assemble |-> mod, deleted |-> del]

\* filter_changed_files: the files to assemble and the deleted keys
filter_changed_files(mod, add, del) ==
    [to_assemble |-> mod \cup add, deleted |-> del]

\* A fallback that returns nothing at all
absent_baseline_result_empty(files) ==
    [modified |-> {}, added |-> {}, deleted |-> {}]

\* get_delta, line 66: the result when the snapshot is empty
absent_baseline_result(files) ==
    [modified |-> files, added |-> files, deleted |-> {}]

\* get_delta, lines 60-66: decode the snapshot; without one, everything is
\* returned at once; otherwise the loop starts from the common root.
GetDeltaStart ==
    /\ UNCHANGED <<rebuildVars, chainVars, pureVars>>
    /\ d_pc = "idle"
    /\ LET snap == extract_metadata(docKind, files_meta)
       IN  /\ snapshot' = snap
           /\ IF snap = <<>>
              THEN /\ modified' = absent_baseline_result(current_files).modified
                   /\ added' = absent_baseline_result(current_files).added
                   /\ deleted' = absent_baseline_result(current_files).deleted
                   /\ pending' = {}
                   /\ common_root' = <<>>
                   /\ d_pc' = "done"
              ELSE /\ modified' = {}
                   /\ added' = {}
                   /\ deleted' = {}
                   /\ pending' = current_files
                   /\ common_root' = CommonRoot(current_files, gone)
                   /\ d_pc' = "loop"
    /\ matched_keys' = {}
    /\ match_of' = << >>
    /\ UNCHANGED <<current_files, mtime, gone, docKind, files_meta,
                   since_filter, deleted_files, unprocessed, toc_entries>>

\* get_delta, lines 84-111: one iteration of the loop over current_files,
\* a set, so the candidates come in any order
GetDeltaStep(abs_path) ==
    /\ UNCHANGED <<rebuildVars, chainVars, pureVars>>
    /\ d_pc = "loop"
    /\ abs_path \in pending
    /\ pending' = pending \ {abs_path}
    /\ LET rel_path == RelOf(abs_path, common_root)
           match_key == MatchKey(rel_path, snapshot)
       IN  /\ match_of' = (abs_path :> match_key) @@ match_of
           /\ IF match_key # None
              THEN /\ matched_keys' = matched_keys \cup {match_key}
                   /\ modified' =
                          IF has_changed(abs_path, SnapDate(snapshot, match_key),
                                         mtime, gone)
                          THEN modified \cup {abs_path}
                          ELSE modified
                   /\ added' = added
              ELSE /\ added' = added \cup {abs_path}
                   /\ UNCHANGED <<matched_keys, modified>>
    /\ UNCHANGED <<current_files, mtime, gone, docKind, files_meta, d_pc,
                   snapshot, common_root, deleted, since_filter, deleted_files,
                   unprocessed, toc_entries>>

\* get_delta, lines 113-118: the keys no candidate matched are deleted
GetDeltaFinish ==
    /\ UNCHANGED <<rebuildVars, chainVars, pureVars>>
    /\ d_pc = "loop"
    /\ pending = {}
    /\ deleted' = {k \in SnapKeys(snapshot) : k \notin matched_keys}
    /\ d_pc' = "done"
    /\ UNCHANGED <<current_files, mtime, gone, docKind, files_meta, snapshot,
                   common_root, pending, match_of, modified, added,
                   matched_keys, since_filter, deleted_files, unprocessed,
                   toc_entries>>

\* filter_changed_files, and assemble lines 183-187 storing its result.
\* Delta mode needs os.path.exists(since).
FilterChangedFiles ==
    /\ UNCHANGED <<rebuildVars, chainVars, pureVars>>
    /\ d_pc = "done"
    /\ docKind # "nofile"
    /\ since_filter' = filter_changed_files(modified, added, deleted).to_assemble
    /\ deleted_files' = filter_changed_files(modified, added, deleted).deleted
    /\ unprocessed' = current_files
    /\ d_pc' = "filtered"
    /\ UNCHANGED <<current_files, mtime, gone, docKind, files_meta, snapshot,
                   common_root, pending, match_of, modified, added, deleted,
                   matched_keys, toc_entries>>

\* process_file, line 85, with no filter at all
outside_filter_never(file_path, filter) == FALSE

\* process_file, line 85: the delta filter is active and leaves the file out
outside_filter(file_path, filter) == file_path \notin filter

\* process_file: a candidate outside the delta filter is skipped; one inside
\* is emitted unless reading it fails (OSError, "[ERROR]" content, size limit)
ProcessFile(file_path, readable) ==
    /\ UNCHANGED <<rebuildVars, metadata_block, run_no, history, pureVars>>
    /\ d_pc = "filtered"
    /\ file_path \in unprocessed
    /\ \A g \in unprocessed : TraversalRank(file_path) <= TraversalRank(g)
    /\ readable \/ (file_path \in since_filter /\ file_path \notin gone)
    /\ unprocessed' = unprocessed \ {file_path}
    /\ toc_entries' =
           IF outside_filter(file_path, since_filter) THEN toc_entries
           ELSE IF file_path \in gone \/ ~readable THEN toc_entries
           ELSE toc_entries \cup {file_path}
    /\ skipped_files' =
           IF ~outside_filter(file_path, since_filter)
                  /\ (file_path \in gone \/ ~readable)
           THEN skipped_files \cup {file_path}
           ELSE skipped_files
    /\ UNCHANGED <<current_files, mtime, gone, docKind, files_meta, d_pc,
                   snapshot, common_root, pending, match_of, modified, added,
                   deleted, matched_keys, since_filter, deleted_files>>

InitDelta ==
    /\ current_files \in {S \in SUBSET AbsPaths : Cardinality(S) <= MaxFiles}
    /\ gone \in SUBSET current_files
    /\ mtime \in [current_files \ gone -> Mtimes]
    /\ docKind \in DocKinds
    /\ files_meta \in
           IF docKind = "record"
           THEN MetaSeqs(RelPaths, {<<"d">>})
           ELSE {<<>>}
    /\ d_pc = "idle"
    /\ snapshot = <<>>
    /\ common_root = <<>>
    /\ pending = {}
    /\ match_of = << >>
    /\ modified = {}
    /\ added = {}
    /\ deleted = {}
    /\ matched_keys = {}
    /\ since_filter = {}
    /\ deleted_files = {}
    /\ unprocessed = {}
    /\ toc_entries = {}
    /\ AssembleIdle
    /\ PureIdle
    /\ RebuildIdle

NextDelta ==
    \/ GetDeltaStart
    \/ \E f \in AbsPaths : GetDeltaStep(f)
    \/ GetDeltaFinish
    \/ FilterChangedFiles
    \/ \E f \in AbsPaths, readable \in BOOLEAN : ProcessFile(f, readable)

vars == <<deltaVars, rebuildVars, chainVars, pureVars>>

SpecDelta == InitDelta /\ [][NextDelta]_vars

\* get_delta on one recorded file whose modification time is any second of
\* the first minutes
PathD == <<"d">>

InitMinute ==
    /\ current_files = {AbsOf(PathD)}
    /\ gone = {}
    /\ mtime \in [current_files -> 0..MaxSecond]
    /\ docKind = "record"
    /\ files_meta \in {<<[key |-> PathD, date |-> dt]>> : dt \in DateStrings}
    /\ d_pc = "idle"
    /\ snapshot = <<>>
    /\ common_root = <<>>
    /\ pending = {}
    /\ match_of = << >>
    /\ modified = {}
    /\ added = {}
    /\ deleted = {}
    /\ matched_keys = {}
    /\ since_filter = {}
    /\ deleted_files = {}
    /\ unprocessed = {}
    /\ toc_entries = {}
    /\ AssembleIdle
    /\ PureIdle
    /\ RebuildIdle

SpecMinute == InitMinute /\ [][NextDelta]_vars

(***************************************************************************)
(* rebuilder.py                                                            *)
(*                                                                         *)
(* A document is its metadata (docKind, files_meta) and its content        *)
(* blocks: a header line "# `path`" followed by a fenced block.  The       *)
(* content of a block is named by the file it was taken from, contents of  *)
(* different files being different, and by whether it carries the          *)
(* "[TRUNCATED]" marker.                                                   *)
(***************************************************************************)
RebuildKeys ==
    { <<"c">>,
      <<"C">>,
      <<"a", "/", "c">>,
      <<".", ".", "/", "c">>,
      <<"/", "c">>,
      <<"D", ":", "c">> }

\* The files whose content may be long enough to have been truncated
LargeFiles == { <<"a", "/", "c">> }

Blocks ==
    [path : RebuildKeys, truncated : {FALSE}]
        \cup [path : LargeFiles, truncated : {TRUE}]

DistinctPaths(q) == \A i, j \in 1..Len(q) : i # j => q[i].path # q[j].path

BlockSeqs == {q \in SeqsUpTo(Blocks, MaxBlocks) : DistinctPaths(q)}

\* The output directory, on the drive OutDrive under Windows
OutDir == <<"/", "o">>

OutDrive == "C"

\* A decoder that takes a missing marker for an empty record
extract_metadata_no_marker_check(kind) == kind \in {"record", "notrecord", "nomarker"}

\* _extract_metadata: TRUE when the file exists, has the marker and its
\* payload is JSON (self.metadata is then whatever the JSON holds)
rebuild_extract_metadata(kind) == kind \in {"record", "notrecord"}

\* _extract_file_content: the pattern  #+ `.*?<path>`.*?\n```lang\n(.*?)\n```
\* with DOTALL and IGNORECASE finds the first header whose quoted text ends
\* with the path, letter case ignored; 0 when there is none.
HeaderMatches(header, rel_path) == EndsWith(Lower(header), Lower(rel_path))

extract_file_content(rel_path, blks) ==
    IF \E i \in 1..Len(blks) : HeaderMatches(blks[i].path, rel_path)
    THEN CHOOSE i \in 1..Len(blks) :
             /\ HeaderMatches(blks[i].path, rel_path)
             /\ \A j \in 1..(i - 1) : ~HeaderMatches(blks[j].path, rel_path)
    ELSE 0

\* A path check that forgets the parent-directory test
is_unsafe_no_dotdot(rel_path) ==
    StartsWith(rel_path, <<"/">>) \/ StartsWith(rel_path, <<"\\">>)

\* rebuild, line 85: the path traversal test
is_unsafe(rel_path) ==
    \/ Contains(rel_path, <<".", ".">>)
    \/ StartsWith(rel_path, <<"/">>)
    \/ StartsWith(rel_path, <<"\\">>)

\* ".." segments resolved, as the file system does when the path is opened
RECURSIVE Resolve(_, _)
Resolve(done, segs) ==
    IF segs = <<>> THEN done
    ELSE IF segs[1] = <<".", ".">>
         THEN Resolve(SubSeq(done, 1, Len(done) - 1), Tail(segs))
         ELSE Resolve(Append(done, segs[1]), Tail(segs))

HasDrive(rel_path) == Len(rel_path) >= 2 /\ rel_path[2] = ":"

\* A join that keeps only the file name of the key
target_path_flat(plat, rel_path) == AbsJoin(Segments(OutDir) \o <<PathName(rel_path)>>)

\* rebuild, line 89: self.output_dir / rel_path, as the place written to.
\* pathlib lets an absolute right operand replace the left one and, under
\* Windows, a right operand on another drive too.
target_path(plat, rel_path) ==
    IF plat = "nt" /\ HasDrive(rel_path) /\ rel_path[1] # OutDrive
    THEN rel_path
    ELSE IF StartsWith(rel_path, <<"/">>)
            \/ (plat = "nt" /\ StartsWith(rel_path, <<"\\">>))
         THEN AbsJoin(Resolve(<<>>, Segments(rel_path)))
         ELSE AbsJoin(Resolve(<<>>, Segments(OutDir \o <<"/">> \o rel_path)))

\* the path is the output directory or lies below it
InsideOutDir(p) == p = OutDir \/ StartsWith(p, OutDir \o <<"/">>)

\* target_path.parent.mkdir(parents=True, exist_ok=True): the directories
\* between the output directory and the target, when the target is inside;
\* outside, the parent of the target
ParentDirs(target) ==
    LET segs == Segments(target)
    IN  IF HasDrive(target) THEN {}
        ELSE {AbsJoin(SubSeq(segs, 1, n)) : n \in 1..(Len(segs) - 1)}

\* What the file system refuses whatever else happens: mkdir when a parent
\* of the target is a file (FileExistsError, NotADirectoryError), write_text
\* when the target is a directory (IsADirectoryError)
DestinationTaken(target, files, directories) ==
    \/ target \in directories
    \/ ParentDirs(target) \cap DOMAIN files # {}

\* rebuild, lines 67-75: no metadata is one diagnostic and nothing else;
\* metadata that is not a record has no get(); otherwise the output
\* directory is created unless this is a dry run.
RebuildStart ==
    /\ rb_pc = "idle"
    /\ IF ~rebuild_extract_metadata(docKind)
       THEN /\ rb_pc' = "returned"
            /\ errors' = <<[kind |-> "nometa", key |-> <<>>]>>
            /\ UNCHANGED <<todo, dirs>>
       ELSE IF docKind = "notrecord"
            THEN /\ rb_pc' = "raised"
                 /\ UNCHANGED <<errors, todo, dirs>>
            ELSE /\ rb_pc' = "loop"
                 /\ todo' = [i \in 1..Len(files_meta) |-> files_meta[i].key]
                 /\ dirs' = IF dry_run THEN dirs ELSE dirs \cup {OutDir}
                 /\ UNCHANGED errors
    /\ UNCHANGED <<blocks, dry_run, platform, created_count, disk>>
    /\ UNCHANGED <<deltaVars, chainVars, pureVars>>

\* an except clause that swallows the failure
failed_write_silent(errs, rel_path, cause) == errs

\* rebuild, lines 105-106: the diagnostic of a failed write
failed_write(errs, rel_path, cause) ==
    Append(errs, [kind |-> "failed", key |-> rel_path, cause |-> cause])

\* rebuild, lines 77-106: one iteration of the loop over files_to_rebuild.
\* outcome is what the file system does with the write: "ok", "nofile"
\* (mkdir or open fails) or "partial" (write_text fails after creating it).
\* The diagnostic of a failed write carries str(e), here its cause: the
\* destination is taken ("exists") or the device failed ("io").
RebuildStep(outcome) ==
    /\ rb_pc = "loop"
    /\ todo # <<>>
    /\ todo' = Tail(todo)
    /\ LET rel_path == todo[1]
           found == extract_file_content(rel_path, blocks)
           target == target_path(platform, rel_path)
       IN  IF found = 0
           THEN /\ outcome = "ok"
                /\ errors' = Append(errors, [kind |-> "notfound", key |-> rel_path])
                /\ UNCHANGED <<created_count, disk, dirs>>
           ELSE IF is_unsafe(rel_path)
           THEN /\ outcome = "ok"
                /\ errors' = Append(errors, [kind |-> "security", key |-> rel_path])
                /\ UNCHANGED <<created_count, disk, dirs>>
           ELSE IF dry_run
           THEN /\ outcome = "ok"
                /\ created_count' = created_count + 1
                /\ UNCHANGED <<errors, disk, dirs>>
           ELSE IF DestinationTaken(target, disk, dirs)
           THEN /\ outcome = "nofile"
                /\ errors' = failed_write(errors, rel_path, "exists")
                /\ UNCHANGED <<created_count, disk, dirs>>
           ELSE IF outcome = "ok"
           THEN /\ dirs' = dirs \cup ParentDirs(target)
                /\ disk' = (target :> [content |-> blocks[found], complete |-> TRUE])
                               @@ disk
                /\ errors' =
                       IF blocks[found].truncated
                       THEN Append(errors, [kind |-> "truncated", key |-> rel_path])
                       ELSE errors
                /\ created_count' = created_count + 1
           ELSE /\ errors' = failed_write(errors, rel_path, "io")
                /\ dirs' = IF outcome = "partial"
                           THEN dirs \cup ParentDirs(target) ELSE dirs
                /\ disk' = IF outcome = "partial"
                           THEN (target :> [content |-> blocks[found],
                                            complete |-> FALSE]) @@ disk
                           ELSE disk
                /\ UNCHANGED created_count
    /\ UNCHANGED <<blocks, dry_run, platform, rb_pc>>
    /\ UNCHANGED <<deltaVars, chainVars, pureVars>>

\* rebuild, line 108
RebuildReturn ==
    /\ rb_pc = "loop"
    /\ todo = <<>>
    /\ rb_pc' = "returned"
    /\ UNCHANGED <<blocks, dry_run, platform, todo, created_count, errors,
                   disk, dirs>>
    /\ UNCHANGED <<deltaVars, chainVars, pureVars>>

\* The path flavour only matters for a key with a drive letter, so the
\* other documents are rebuilt under POSIX alone.
InitRebuild ==
    /\ docKind \in DocKinds
    /\ files_meta \in
           IF docKind = "record"
           THEN {q \in SeqsUpTo([key : RebuildKeys, date : {"00:00"}], MaxKeys) :
                     DistinctKeys(q)}
           ELSE {<<>>}
    /\ blocks \in IF docKind = "nofile" THEN {<<>>} ELSE BlockSeqs
    /\ dry_run \in BOOLEAN
    /\ platform \in
           IF ~dry_run /\ \E i \in 1..Len(files_meta) : HasDrive(files_meta[i].key)
           THEN {"posix", "nt"}
           ELSE {"posix"}
    /\ rb_pc = "idle"
    /\ todo = <<>>
    /\ created_count = 0
    /\ errors = <<>>
    /\ disk = << >>
    /\ dirs = {}
    /\ current_files = {}
    /\ gone = {}
    /\ mtime = << >>
    /\ d_pc = "idle"
    /\ snapshot = <<>>
    /\ common_root = <<>>
    /\ pending = {}
    /\ match_of = << >>
    /\ modified = {}
    /\ added = {}
    /\ deleted = {}
    /\ matched_keys = {}
    /\ since_filter = {}
    /\ deleted_files = {}
    /\ unprocessed = {}
    /\ toc_entries = {}
    /\ AssembleIdle
    /\ PureIdle

NextRebuild ==
    \/ RebuildStart
    \/ \E outcome \in {"ok", "nofile", "partial"} : RebuildStep(outcome)
    \/ RebuildReturn

SpecRebuild == InitRebuild /\ [][NextRebuild]_vars

(***************************************************************************)
(* Both loops on one document, each in every order: get_delta visits its   *)
(* candidates in any order, and the document lists its keys in any order.  *)
(* A document of this universe may name a file and a file below it.        *)
(***************************************************************************)
OrderKeys == { <<"a">>, <<"a", "/", "c">>, <<"c">> }

OrderCandidates == {AbsOf(<<"a", "/", "c">>), AbsOf(<<"b", "/", "c">>), AbsOf(<<"d">>)}

OrderBlockSeqs ==
    {q \in SeqsUpTo([path : OrderKeys, truncated : {FALSE}], MaxBlocks) :
         DistinctPaths(q)}

InitOrder ==
    /\ docKind = "record"
    /\ files_meta \in
           {q \in SeqsUpTo([key : OrderKeys, date : {"00:00"}], MaxKeys) :
                DistinctKeys(q)}
    /\ \/ /\ current_files \in
                  {S \in SUBSET OrderCandidates : Cardinality(S) <= MaxFiles}
          /\ blocks = <<>>
       \/ /\ current_files = {}
          /\ blocks \in OrderBlockSeqs
    /\ gone = {}
    /\ mtime \in [current_files -> Mtimes]
    /\ dry_run = FALSE
    /\ platform = "posix"
    /\ rb_pc = "idle"
    /\ todo = <<>>
    /\ created_count = 0
    /\ errors = <<>>
    /\ disk = << >>
    /\ dirs = {}
    /\ d_pc = "idle"
    /\ snapshot = <<>>
    /\ common_root = <<>>
    /\ pending = {}
    /\ match_of = << >>
    /\ modified = {}
    /\ added = {}
    /\ deleted = {}
    /\ matched_keys = {}
    /\ since_filter = {}
    /\ deleted_files = {}
    /\ unprocessed = {}
    /\ toc_entries = {}
    /\ AssembleIdle
    /\ PureIdle

NextOrder == NextDelta \/ NextRebuild

SpecOrder == InitOrder /\ [][NextOrder]_vars

(***************************************************************************)
(* A chain of assemble runs on one project tree: the first run has no      *)
(* baseline and emits every file, and each later run is a delta run whose  *)
(* baseline is the document the run before it wrote.  No file changes      *)
(* between the runs.                                                       *)
(***************************************************************************)
MaxRuns == 3

\* The files of a set in the order process_directory visits them
RECURSIVE InTraversalOrder(_)
InTraversalOrder(files) ==
    IF files = {} THEN <<>>
    ELSE LET f == CHOOSE g \in files :
                      \A h \in files : TraversalRank(g) <= TraversalRank(h)
         IN  <<f>> \o InTraversalOrder(files \ {f})

\* generate_metadata_block: the "files" mapping of the new document, one
\* entry per file of the table of contents, from its snapshot-relative path
\* to its modification time truncated to the minute
generate_metadata_block(toc, mt) ==
    LET order == InTraversalOrder(toc)
    IN  [i \in 1..Len(order) |->
            [key |-> RelPath(order[i], Cwd),
             date |-> FormatMinute(TruncMinute(mt[order[i]]))]]

\* assemble without an existing --since document: since_filter stays None
\* and process_file lets every candidate through, as does the filter that
\* holds them all
AssembleFull ==
    /\ d_pc = "idle"
    /\ docKind = "nofile"
    /\ since_filter' = current_files
    /\ unprocessed' = current_files
    /\ d_pc' = "filtered"
    /\ UNCHANGED <<current_files, mtime, gone, docKind, files_meta, snapshot,
                   common_root, pending, match_of, modified, added, deleted,
                   matched_keys, deleted_files, toc_entries>>
    /\ UNCHANGED <<rebuildVars, chainVars, pureVars>>

\* assemble, lines 222-228: the metadata of the document, once every
\* candidate went through process_file
GenerateMetadata ==
    /\ d_pc = "filtered"
    /\ unprocessed = {}
    /\ metadata_block' = generate_metadata_block(toc_entries, mtime)
    /\ d_pc' = "assembled"
    /\ UNCHANGED <<current_files, mtime, gone, docKind, files_meta, snapshot,
                   common_root, pending, match_of, modified, added, deleted,
                   matched_keys, since_filter, deleted_files, unprocessed,
                   toc_entries>>
    /\ UNCHANGED <<rebuildVars, skipped_files, run_no, history, pureVars>>

\* The next assemble run, a new CodebaseAssembler on the same tree, with
\* --since naming the document just written
NextRun ==
    /\ d_pc = "assembled"
    /\ run_no < MaxRuns
    /\ run_no' = run_no + 1
    /\ history' = Append(history,
           [emitted |-> toc_entries,
            unchanged |-> IF docKind = "nofile" THEN {}
                          ELSE current_files \ (modified \cup added)])
    /\ docKind' = "record"
    /\ files_meta' = metadata_block
    /\ metadata_block' = <<>>
    /\ skipped_files' = {}
    /\ d_pc' = "idle"
    /\ snapshot' = <<>>
    /\ common_root' = <<>>
    /\ pending' = {}
    /\ match_of' = << >>
    /\ modified' = {}
    /\ added' = {}
    /\ deleted' = {}
    /\ matched_keys' = {}
    /\ since_filter' = {}
    /\ deleted_files' = {}
    /\ unprocessed' = {}
    /\ toc_entries' = {}
    /\ UNCHANGED <<current_files, mtime, gone>>
    /\ UNCHANGED <<rebuildVars, pureVars>>

InitChain ==
    /\ current_files \in {S \in SUBSET AbsPaths : Cardinality(S) <= MaxFiles}
    /\ gone \in SUBSET current_files
    /\ mtime \in [current_files \ gone -> Mtimes]
    /\ docKind = "nofile"
    /\ files_meta = <<>>
    /\ d_pc = "idle"
    /\ snapshot = <<>>
    /\ common_root = <<>>
    /\ pending = {}
    /\ match_of = << >>
    /\ modified = {}
    /\ added = {}
    /\ deleted = {}
    /\ matched_keys = {}
    /\ since_filter = {}
    /\ deleted_files = {}
    /\ unprocessed = {}
    /\ toc_entries = {}
    /\ AssembleIdle
    /\ PureIdle
    /\ RebuildIdle

NextChain ==
    \/ AssembleFull
    \/ (docKind # "nofile" /\ GetDeltaStart)
    \/ \E f \in AbsPaths : GetDeltaStep(f)
    \/ GetDeltaFinish
    \/ FilterChangedFiles
    \/ \E f \in AbsPaths, readable \in BOOLEAN : ProcessFile(f, readable)
    \/ GenerateMetadata
    \/ NextRun

SpecChain == InitChain /\ [][NextChain]_vars

(***************************************************************************)
(* The two decoders on one document: get_delta decodes it with             *)
(* extract_metadata and rebuild with _extract_metadata.  The document has  *)
(* no content blocks and there are no candidates.                          *)
(***************************************************************************)
InitDecode ==
    /\ docKind \in DocKinds
    /\ files_meta \in
           IF docKind = "record"
           THEN MetaSeqs(RelPaths, {<<"d">>})
           ELSE {<<>>}
    /\ dry_run \in BOOLEAN
    /\ current_files = {}
    /\ gone = {}
    /\ mtime = << >>
    /\ d_pc = "idle"
    /\ snapshot = <<>>
    /\ common_root = <<>>
    /\ pending = {}
    /\ match_of = << >>
    /\ modified = {}
    /\ added = {}
    /\ deleted = {}
    /\ matched_keys = {}
    /\ since_filter = {}
    /\ deleted_files = {}
    /\ unprocessed = {}
    /\ toc_entries = {}
    /\ AssembleIdle
    /\ PureIdle
    /\ blocks = <<>>
    /\ platform = "posix"
    /\ rb_pc = "idle"
    /\ todo = <<>>
    /\ created_count = 0
    /\ errors = <<>>
    /\ disk = << >>
    /\ dirs = {}

NextDecode == GetDeltaStart \/ RebuildStart

SpecDecode == InitDecode /\ [][NextDecode]_vars

(***************************************************************************)
(* format_delta_summary: the digest of a delta, one line per category.     *)
(* A line is the record of what its text shows: the label, the count, the  *)
(* basenames displayed, and the number after "... (+" (0: no such suffix). *)
(***************************************************************************)
MaxShown == 5

\* The characters of the model in increasing code point order, the order
\* sorted() compares strings by
CodePointOrder ==
    << ".", "/", "A", "C", "D", "M", "_", "a", "b", "c", "d", "e", "f",
       "o", "p", "r", "x", "y" >>

CharCode(ch) == CHOOSE i \in 1..Len(CodePointOrder) : CodePointOrder[i] = ch

\* s <= t for two strings
StrLeq(s, t) ==
    \/ IsSegPrefix(s, t)
    \/ \E i \in 1..Len(s) :
           /\ i <= Len(t)
           /\ SubSeq(s, 1, i - 1) = SubSeq(t, 1, i - 1)
           /\ CharCode(s[i]) < CharCode(t[i])

\* sorted(Path(p).name for p in files): one name per element
RECURSIVE SortedNames(_)
SortedNames(files) ==
    IF files = {} THEN <<>>
    ELSE LET p == CHOOSE q \in files :
                      \A r \in files : StrLeq(PathName(q), PathName(r))
         IN  <<PathName(p)>> \o SortedNames(files \ {p})

\* names[:6], one name more than the digest shows
DisplayedNamesOneMore(names) ==
    SubSeq(names, 1, IF Len(names) < MaxShown + 1 THEN Len(names) ELSE MaxShown + 1)

\* names[:5]
DisplayedNames(names) ==
    SubSeq(names, 1, IF Len(names) < MaxShown THEN Len(names) ELSE MaxShown)

\* _fmt: no line for an empty category
Fmt(files, label) ==
    IF files = {} THEN <<>>
    ELSE LET count == Cardinality(files)
             names == SortedNames(files)
         IN  << [label |-> label,
                 count |-> count,
                 names |-> DisplayedNames(names),
                 overflow |-> IF count > MaxShown THEN count - MaxShown ELSE 0] >>

NoChangesLine ==
    [label |-> "No changes", count |-> 0, names |-> <<>>, overflow |-> 0]

format_delta_summary(mod, add, del) ==
    LET lines == Fmt(mod, "Modified") \o Fmt(add, "Added") \o Fmt(del, "Deleted")
    IN  IF lines = <<>> THEN <<NoChangesLine>> ELSE lines

FormatDeltaSummary ==
    /\ delta_summary = <<>>
    /\ delta_summary' = format_delta_summary(modified, added, deleted)
    /\ UNCHANGED <<deltaVars, rebuildVars, chainVars, cfg_pc, given_extensions,
                   extensions, exact_filenames>>

\* The sets a digest is made of: up to seven modified files, two of them
\* with the same basename and one with an upper-case name, and a few added
\* and deleted ones
SummaryModified ==
    { AbsOf(<<"a">>), AbsOf(<<"b">>), AbsOf(<<"c">>), AbsOf(<<"D">>),
      AbsOf(<<"e">>), AbsOf(<<"f">>), AbsOf(<<"x", "/", "a">>) }

SummaryAdded == { AbsOf(<<"y">>), AbsOf(<<"x", "/", "y">>) }

SummaryDeleted == { <<"d">>, <<"a", "/", "c">> }

InitSummary ==
    /\ modified \in SUBSET SummaryModified
    /\ added \in SUBSET SummaryAdded
    /\ deleted \in SUBSET SummaryDeleted
    /\ current_files = {}
    /\ gone = {}
    /\ mtime = << >>
    /\ docKind = "record"
    /\ files_meta = <<>>
    /\ d_pc = "idle"
    /\ snapshot = <<>>
    /\ common_root = <<>>
    /\ pending = {}
    /\ match_of = << >>
    /\ matched_keys = {}
    /\ since_filter = {}
    /\ deleted_files = {}
    /\ unprocessed = {}
    /\ toc_entries = {}
    /\ AssembleIdle
    /\ PureIdle
    /\ RebuildIdle

NextSummary == FormatDeltaSummary

SpecSummary == InitSummary /\ [][NextSummary]_vars

(***************************************************************************)
(* AssemblerConfig.__post_init__: the entries of the extensions list are   *)
(* told apart into extensions and exact filenames.                         *)
(***************************************************************************)
MaxExtensions == 3   \* entries of the extensions list given

UpperChars == {"A", "C", "D", "M"}

IsUpper(ch) == ch \in UpperChars

\* ".py", "py", "env.j2", an upper-case name with an inner dot, two
\* upper-case names, a name that starts with no letter, and the empty string
ExtEntries ==
    { <<".", "p", "y">>, <<"p", "y">>, <<"a", ".", "b">>, <<"M", ".", "a">>,
      <<"M", "a">>, <<"D">>, <<"_", "x">>, <<>> }

ExtLists == UNION { [1..n -> ExtEntries] : n \in 0..MaxExtensions }

\* the branch of the loop an entry takes, the upper-case test made first
ext_kind_upper_first(ext) ==
    IF StartsWith(ext, <<".">>) THEN "keep"
    ELSE IF ext = <<>> THEN "IndexError"
    ELSE IF IsUpper(ext[1]) THEN "exact"
    ELSE "dot"

\* the branch of the loop an entry takes; ext[0] of the empty string raises
ext_kind(ext) ==
    IF StartsWith(ext, <<".">>) THEN "keep"
    ELSE IF Contains(ext, <<".">>) THEN "dot"
    ELSE IF ext = <<>> THEN "IndexError"
    ELSE IF IsUpper(ext[1]) THEN "exact"
    ELSE "dot"

RECURSIVE normalize_extensions(_, _, _)
normalize_extensions(given, normalized_ext, exact) ==
    IF given = <<>>
    THEN [raised |-> FALSE, extensions |-> normalized_ext, exact_filenames |-> exact]
    ELSE LET ext == Head(given)
             kind == ext_kind(ext)
         IN  IF kind = "IndexError"
             THEN [raised |-> TRUE, extensions |-> <<>>, exact_filenames |-> <<>>]
             ELSE IF kind = "keep"
             THEN normalize_extensions(Tail(given), Append(normalized_ext, ext), exact)
             ELSE IF kind = "dot"
             THEN normalize_extensions(Tail(given),
                                       Append(normalized_ext, <<".">> \o ext), exact)
             ELSE normalize_extensions(Tail(given), normalized_ext, Append(exact, ext))

\* __post_init__ with a path given and the default size limit
post_init(given) ==
    IF given = <<>>
    THEN [raised |-> TRUE, extensions |-> <<>>, exact_filenames |-> <<>>]
    ELSE normalize_extensions(given, <<>>, <<>>)

ConstructConfig ==
    /\ cfg_pc = "idle"
    /\ cfg_pc' = IF post_init(given_extensions).raised THEN "raised" ELSE "ready"
    /\ extensions' = post_init(given_extensions).extensions
    /\ exact_filenames' = post_init(given_extensions).exact_filenames
    /\ UNCHANGED <<deltaVars, rebuildVars, chainVars, delta_summary,
                   given_extensions>>

InitConfig ==
    /\ given_extensions \in ExtLists
    /\ cfg_pc = "idle"
    /\ extensions = <<>>
    /\ exact_filenames = <<>>
    /\ delta_summary = <<>>
    /\ current_files = {}
    /\ gone = {}
    /\ mtime = << >>
    /\ docKind = "nofile"
    /\ files_meta = <<>>
    /\ d_pc = "idle"
    /\ snapshot = <<>>
    /\ common_root = <<>>
    /\ pending = {}
    /\ match_of = << >>
    /\ modified = {}
    /\ added = {}
    /\ deleted = {}
    /\ matched_keys = {}
    /\ since_filter = {}
    /\ deleted_files = {}
    /\ unprocessed = {}
    /\ toc_entries = {}
    /\ AssembleIdle
    /\ RebuildIdle

NextConfig == ConstructConfig

SpecConfig == InitConfig /\ [][NextConfig]_vars

(***************************************************************************)
(* Properties of get_delta and of the delta filter.                        *)
(***************************************************************************)
RecordedKeys == {files_meta[i].key : i \in 1..Len(files_meta)}

RecordedDate(k) ==
    files_meta[CHOOSE i \in 1..Len(files_meta) : files_meta[i].key = k].date

DeltaReturned == d_pc \in {"done", "filtered"}

\* The candidates are the recorded files, all readable, every date parses
SameFilesAsSnapshot ==
    /\ docKind = "record"
    /\ \A k \in RecordedKeys : ParsesAsDate(RecordedDate(k))
    /\ current_files = {AbsOf(k) : k \in RecordedKeys}
    /\ gone = {}

UnchangedSince(k) ==
    FormatMinute(TruncMinute(mtime[AbsOf(k)])) = RecordedDate(k)

\* two relative paths with the same basename in sibling directories
Siblings(p, q) ==
    LET ps == Segments(p)
        qs == Segments(q)
        n == Len(ps)
    IN  /\ n >= 2
        /\ Len(qs) = n
        /\ ps[n] = qs[n]
        /\ ps[n - 1] # qs[n - 1]
        /\ SubSeq(ps, 1, n - 2) = SubSeq(qs, 1, n - 2)

\* C3: without a usable metadata block, get_delta returns every candidate
\* as added, and nothing as modified or deleted.
C3_AbsentBaselineOnlyAdded ==
    (DeltaReturned /\ snapshot = <<>>) =>
        (added = current_files /\ modified = {} /\ deleted = {})

\* C4: the snapshot records a/c and b/c, both still candidates, and only
\* b/c changed its modification minute: modified is {b/c}, added and deleted
\* are empty, and a/c is not emitted.
PathAC == <<"a", "/", "c">>

PathBC == <<"b", "/", "c">>

OnlyBCChanged ==
    /\ SameFilesAsSnapshot
    /\ {PathAC, PathBC} \subseteq RecordedKeys
    /\ ~UnchangedSince(PathBC)
    /\ \A k \in RecordedKeys \ {PathBC} : UnchangedSince(k)

C4_BasenameCollisionImmunity ==
    (DeltaReturned /\ OnlyBCChanged) =>
        /\ modified = {AbsOf(PathBC)}
        /\ added = {}
        /\ deleted = {}
        /\ AbsOf(PathAC) \notin toc_entries

C4_Witness ==
    /\ d_pc = "filtered"
    /\ unprocessed = {}
    /\ OnlyBCChanged
    /\ toc_entries = {AbsOf(PathBC)}

\* C5: modified, added and deleted are pairwise disjoint for every input,
\* and no snapshot key is both matched and deleted.
C5_DeltaSetsDisjoint ==
    DeltaReturned =>
        /\ modified \cap added = {}
        /\ modified \cap deleted = {}
        /\ added \cap deleted = {}
        /\ matched_keys \cap deleted = {}

\* C6: with a usable baseline, deleted is exactly the set of snapshot keys
\* whose file is not among the current candidates (all of them readable).
C6_DeletedAreTheGoneKeys ==
    (DeltaReturned /\ snapshot # <<>> /\ gone = {}) =>
        deleted = {k \in SnapKeys(snapshot) : AbsOf(k) \notin current_files}

\* C7: when the candidates are exactly the recorded files and every file's
\* minute-truncated modification time equals its recorded timestamp,
\* modified, added and deleted are all empty.
C7_Idempotence ==
    (DeltaReturned /\ SameFilesAsSnapshot
        /\ \A k \in RecordedKeys : UnchangedSince(k)) =>
        (modified = {} /\ added = {} /\ deleted = {})

C9_NoSiblingCrossMatch ==
    \A f \in DOMAIN match_of :
        ~Siblings(RelPath(f, Cwd), match_of[f])

(***************************************************************************)
(* Properties of rebuild.                                                  *)
(***************************************************************************)
MetaKeys == {files_meta[i].key : i \in 1..Len(files_meta)}

HeaderPaths == {blocks[i].path : i \in 1..Len(blocks)}

BlockOf(k) == blocks[CHOOSE i \in 1..Len(blocks) : blocks[i].path = k]

ErrorsOf(kind, k) ==
    {i \in 1..Len(errors) : errors[i].kind = kind /\ errors[i].key = k}

\* a relative path of a file of a tree: no root, no drive, no ".."
PlainRelative(k) == ~is_unsafe(k) /\ ~HasDrive(k)

\* The document is the serialization of a file set F of plain relative
\* paths, no two of them differing by letter case only: one block per file
\* and a metadata record listing every path
SerializedFileSet ==
    /\ docKind = "record"
    /\ MetaKeys = HeaderPaths
    /\ \A k \in MetaKeys : PlainRelative(k)
    /\ \A k1, k2 \in MetaKeys : Lower(k1) = Lower(k2) => k1 = k2

\* the run returned and the file system accepted every write
RebuiltWithoutWriteFailure ==
    /\ rb_pc = "returned"
    /\ ~dry_run
    /\ \A i \in 1..Len(errors) : errors[i].kind # "failed"

\* C1: a non-dry-run rebuild of the serialization of a file set F creates
\* every path of F under the output root with the original content, returns
\* count = |F|, and flags every file whose content carries the truncation
\* marker.
C1_RoundTrip ==
    (SerializedFileSet /\ RebuiltWithoutWriteFailure) =>
        /\ created_count = Cardinality(MetaKeys)
        /\ \A k \in MetaKeys :
               LET target == target_path(platform, k)
               IN  /\ target \in DOMAIN disk
                   /\ InsideOutDir(target)
                   /\ disk[target].complete
                   /\ disk[target].content.path = k
                   /\ BlockOf(k).truncated => ErrorsOf("truncated", k) # {}

\* C2: after any rebuild run, every file or directory the run created lies
\* inside the output root.
C2_WritesInsideOutputRoot ==
    \A p \in (DOMAIN disk) \cup dirs : InsideOutDir(p)

\* C10: when the document does not exist, has no metadata marker or its
\* payload is not valid JSON, rebuild returns count 0 with exactly one
\* diagnostic and creates nothing, the output directory included.
NoMetadataKinds == {"nofile", "nomarker", "badjson"}

C10_NoMetadataHardFailure ==
    docKind \in NoMetadataKinds =>
        /\ rb_pc \in {"idle", "returned"}
        /\ rb_pc = "returned" =>
               /\ created_count = 0
               /\ Len(errors) = 1
               /\ errors[1].kind = "nometa"
               /\ disk = << >>
               /\ dirs = {}

C10_Witness ==
    /\ rb_pc = "returned"
    /\ docKind = "nomarker"
    /\ blocks # <<>>
    /\ ~dry_run
    /\ Len(errors) = 1

\* the keys the loop has visited
Visited(k) ==
    /\ rb_pc \in {"loop", "returned"}
    /\ k \in MetaKeys
    /\ \A i \in 1..Len(todo) : todo[i] # k

\* the key has a ".." segment or begins with a path-root marker
EscapingKey(k) ==
    \/ \E i \in 1..Len(Split(k)) : Split(k)[i] = <<".", ".">>
    \/ StartsWith(k, <<"/">>)
    \/ StartsWith(k, <<"\\">>)

\* the keys with a content block of their own and a safe path
SafeKeysWithBlock == {k \in MetaKeys : k \in HeaderPaths /\ ~EscapingKey(k)}

DiagnosticsOf(k) == {i \in 1..Len(errors) : errors[i].key = k}

\* C11: a dry run creates no directory and no file, the output root
\* included, and returns the number of metadata keys that have a content
\* block and a safe path.
C11_DryRunCountsAndTouchesNothing ==
    dry_run =>
        /\ disk = << >>
        /\ dirs = {}
        /\ (rb_pc = "returned" /\ docKind = "record") =>
               created_count = Cardinality(SafeKeysWithBlock)

\* C12, as stated: every visited key that has a ".." segment or begins
\* with a path-root marker is not written and has exactly one diagnostic,
\* a security one.
C12_UnsafeKeyReported ==
    \A k \in MetaKeys :
        (Visited(k) /\ EscapingKey(k)) =>
            /\ target_path(platform, k) \notin DOMAIN disk
            /\ Cardinality(ErrorsOf("security", k)) = 1
            /\ DiagnosticsOf(k) = ErrorsOf("security", k)

\* C12, amended: such a key is never written and has exactly one
\* diagnostic: a security one when a content block is found for it, a
\* "Content not found" one when none is.
C12_UnsafeKeyReportedWhenFound ==
    /\ \A k \in MetaKeys :
           (Visited(k) /\ EscapingKey(k)) =>
               /\ target_path(platform, k) \notin DOMAIN disk
               /\ Cardinality(DiagnosticsOf(k)) = 1
               /\ IF extract_file_content(k, blocks) # 0
                  THEN DiagnosticsOf(k) = ErrorsOf("security", k)
                  ELSE DiagnosticsOf(k) = ErrorsOf("notfound", k)
    /\ created_count <=
           Cardinality({j \in MetaKeys : Visited(j) /\ ~EscapingKey(j)})

C12_Witness ==
    /\ rb_pc = "returned"
    /\ ~dry_run
    /\ <<".", ".", "/", "c">> \in MetaKeys \cap HeaderPaths
    /\ ErrorsOf("security", <<".", ".", "/", "c">>) # {}
    /\ created_count = 1

\* C13: at the moment a key is rejected as unsafe, the run has created no
\* directory and written no file.
C13_RejectBeforeMutating ==
    [][(Len(errors') = Len(errors) + 1 /\ errors'[Len(errors')].kind = "security")
           => (disk = << >> /\ dirs = {})]_vars

\* C14: the content extracted for a visited key k is the block whose header
\* path is exactly k, and when no header names exactly k the extraction
\* reports content not found.
C14_ExactHeaderMatching ==
    \A k \in MetaKeys :
        Visited(k) =>
            LET found == extract_file_content(k, blocks)
            IN  IF k \in HeaderPaths
                THEN found # 0 /\ blocks[found].path = k
                ELSE found = 0 /\ ErrorsOf("notfound", k) # {}

\* the key was processed successfully: simulated by a dry run, or written
ProcessedSuccessfully(k) ==
    /\ Visited(k)
    /\ extract_file_content(k, blocks) # 0
    /\ ~is_unsafe(k)
    /\ \/ dry_run
       \/ /\ target_path(platform, k) \in DOMAIN disk
          /\ disk[target_path(platform, k)].complete

\* C15: every key processed successfully, written or simulated, whose
\* captured content carries the truncation marker has a truncation warning
\* among the diagnostics.
C15_TruncationWarning ==
    \A k \in MetaKeys :
        (ProcessedSuccessfully(k)
            /\ blocks[extract_file_content(k, blocks)].path = k
            /\ blocks[extract_file_content(k, blocks)].truncated) =>
            /\ ErrorsOf("truncated", k) # {}
            /\ created_count >= 1

\* C16: rebuild of a metadata record never aborts; a visited key with no
\* content block has a "Content not found" diagnostic, a key whose write
\* left an incomplete file has a "Failed to write" diagnostic, and when the
\* run returns every key was visited and is either written or diagnosed.
C16_PerFileFailureIsolation ==
    docKind = "record" =>
        /\ rb_pc # "raised"
        /\ \A k \in MetaKeys :
               Visited(k) =>
                   /\ k \notin HeaderPaths => ErrorsOf("notfound", k) # {}
                   /\ (/\ target_path(platform, k) \in DOMAIN disk
                       /\ ~disk[target_path(platform, k)].complete)
                          => ErrorsOf("failed", k) # {}
        /\ rb_pc = "returned" =>
               \A k \in MetaKeys :
                   /\ Visited(k)
                   /\ ProcessedSuccessfully(k) \/ DiagnosticsOf(k) # {}

\* C17: after a rebuild, every destination either holds the complete
\* captured content or does not exist.
C17_NoPartialFile ==
    \A p \in DOMAIN disk : disk[p].complete

\* C18: a document without a marker, or whose payload does not parse as the
\* expected record, decodes as absent in both consumers: rebuild does not
\* raise and returns its "no valid metadata" diagnostic, and get_delta
\* treats the baseline as absent.
NotARecordKinds == {"nomarker", "badjson", "notrecord"}

C18_DecodingNeverFails ==
    docKind \in NotARecordKinds =>
        /\ rb_pc # "raised"
        /\ rb_pc = "returned" =>
               (Len(errors) = 1 /\ errors[1].kind = "nometa")
        /\ d_pc # "idle" => snapshot = <<>>

MatchedUnreadable ==
    {f \in DOMAIN match_of : f \in gone /\ match_of[f] # None}

\* C20: a candidate matched to a snapshot key whose modification time
\* cannot be read is classified as modified, and is in the set to assemble.
C20_UnreadableIsModified ==
    /\ MatchedUnreadable \subseteq modified
    /\ d_pc = "filtered" => MatchedUnreadable \subseteq since_filter

C20_Witness ==
    /\ d_pc = "filtered"
    /\ MatchedUnreadable # {}
    /\ \E f \in MatchedUnreadable : AbsOf(match_of[f]) = f

(***************************************************************************)
(* The change test.                                                        *)
(***************************************************************************)
\* the second t lies in the minute m
InMinute(t, m) == m * 60 <= t /\ t < (m + 1) * 60

\* C21: a matched, readable candidate is modified exactly when its
\* modification time lies in another minute than the recorded timestamp,
\* whatever its seconds.
C21_MinuteGranularity ==
    \A f \in DOMAIN match_of :
        (match_of[f] # None /\ f \notin gone) =>
            (f \in modified <=>
                 ~InMinute(mtime[f], SnapDate(snapshot, match_of[f])))

C21_Witness ==
    /\ d_pc = "done"
    /\ match_of = (AbsOf(PathD) :> PathD)
    /\ mtime[AbsOf(PathD)] = 61
    /\ SnapDate(snapshot, PathD) = 1
    /\ modified = {}

(***************************************************************************)
(* The path reconciliation strategy.                                       *)
(***************************************************************************)
\* C22: each snapshot key is matched by at most one current candidate.
C22_KeyMatchedAtMostOnce ==
    \A f, g \in DOMAIN match_of :
        (f # g /\ match_of[f] # None) => match_of[f] # match_of[g]

\* one path ends with the other and both have the same last segment
SuffixRule(rel, key) ==
    /\ \/ Len(key) <= Len(rel) /\ SubSeq(rel, Len(rel) - Len(key) + 1, Len(rel)) = key
       \/ Len(rel) <= Len(key) /\ SubSeq(key, Len(key) - Len(rel) + 1, Len(key)) = rel
    /\ Segments(rel)[Len(Segments(rel))] = Segments(key)[Len(Segments(key))]

\* the position of a key in the snapshot's iteration order
KeyIndex(k) == CHOOSE i \in 1..Len(snapshot) : snapshot[i].key = k

\* C23: a visited candidate whose relative path is a snapshot key is matched
\* to that key; otherwise to the first key, in the snapshot's order, that
\* passes the suffix rule; otherwise it has no match and is added.
C23_MatchPriority ==
    \A f \in DOMAIN match_of :
        LET rel == RelOf(f, common_root)
            keys == SnapKeys(snapshot)
        IN  IF rel \in keys
            THEN match_of[f] = rel
            ELSE IF \E k \in keys : SuffixRule(rel, k)
            THEN /\ match_of[f] \in keys
                 /\ SuffixRule(rel, match_of[f])
                 /\ \A k \in keys :
                        SuffixRule(rel, k) => KeyIndex(match_of[f]) <= KeyIndex(k)
            ELSE match_of[f] = None /\ f \in added

C23_Witness ==
    /\ d_pc = "done"
    /\ \E f \in DOMAIN match_of :
           /\ match_of[f] = RelOf(f, common_root)
           /\ \E k \in SnapKeys(snapshot) :
                  /\ k # match_of[f]
                  /\ SuffixRule(match_of[f], k)
                  /\ KeyIndex(k) < KeyIndex(match_of[f])
    /\ \E g \in DOMAIN match_of :
           /\ match_of[g] # None
           /\ match_of[g] # RelOf(g, common_root)

(***************************************************************************)
(* Independence of the iterations.                                         *)
(***************************************************************************)
\* What get_delta returns is a function of its inputs alone: each candidate
\* is classified by its own path and time, whatever was visited before it
DeltaIsOrderFree ==
    (DeltaReturned /\ snapshot # <<>>) =>
        LET own(f) == MatchKey(RelOf(f, common_root), snapshot)
        IN  /\ \A f \in current_files : match_of[f] = own(f)
            /\ added = {f \in current_files : own(f) = None}
            /\ modified =
                   {f \in current_files :
                        /\ own(f) # None
                        /\ f \in gone
                             \/ ~InMinute(mtime[f], SnapDate(snapshot, own(f)))}
            /\ deleted = SnapKeys(snapshot) \ {own(f) : f \in current_files}

\* What rebuild did with a visited key that has content and a safe path
\* depends on that key alone: its content is at its destination, or the
\* device refused the write
KeyOutcomeIsItsOwn(k) ==
    LET target == target_path(platform, k)
        found == extract_file_content(k, blocks)
    IN  \/ /\ target \in DOMAIN disk
           /\ disk[target].content = blocks[found]
           /\ disk[target].complete <=> ErrorsOf("failed", k) = {}
        \/ /\ target \notin DOMAIN disk
           /\ ErrorsOf("failed", k) # {}
           /\ \A i \in ErrorsOf("failed", k) : errors[i].cause = "io"

\* the visited keys with content and a safe path
EligibleKeys ==
    {k \in MetaKeys :
         /\ Visited(k)
         /\ extract_file_content(k, blocks) # 0
         /\ ~EscapingKey(k)}

WrittenKeys == IF dry_run THEN {} ELSE EligibleKeys

\* no key names a destination that is another key's, or a directory above it
NoNestedDestinations ==
    \A k1, k2 \in MetaKeys :
        k1 # k2 => ~IsSegPrefix(Segments(k1), Segments(k2))

\* C24, as stated: the outcome of get_delta does not depend on the order of
\* its candidates, and the outcome of rebuild for each key (count,
\* diagnostics, file on disk) does not depend on the other keys.
C24_IndependentIterations ==
    /\ DeltaIsOrderFree
    /\ \A k \in WrittenKeys : KeyOutcomeIsItsOwn(k)
    /\ created_count =
           Cardinality({k \in EligibleKeys : ErrorsOf("failed", k) = {}})

\* C24, amended: the same, for rebuild when no two keys name the same
\* destination or a destination and a directory above it.
C24_IndependentUnlessNested ==
    /\ DeltaIsOrderFree
    /\ NoNestedDestinations =>
           /\ \A k \in WrittenKeys : KeyOutcomeIsItsOwn(k)
           /\ created_count =
                  Cardinality({k \in EligibleKeys : ErrorsOf("failed", k) = {}})

C24_Witness ==
    /\ rb_pc = "returned"
    /\ NoNestedDestinations
    /\ Cardinality(WrittenKeys) = 2
    /\ created_count = 2
    /\ Cardinality(DOMAIN disk) = 2

(***************************************************************************)
(* C25: format_delta_summary emits one line per non-empty category, in the *)
(* order Modified, Added, Deleted; each line shows the number of elements  *)
(* of its category and the first basenames, at most 5, in sorted order,    *)
(* followed by the overflow count - 5 when the category has more than 5    *)
(* elements; when the three sets are empty the digest is the one           *)
(* "no changes" line.                                                      *)
(***************************************************************************)
CategoryOf(label) ==
    IF label = "Modified" THEN modified
    ELSE IF label = "Added" THEN added
    ELSE deleted

CategoryOrder == <<"Modified", "Added", "Deleted">>

NonEmptyCategories == SelectSeq(CategoryOrder, LAMBDA l : CategoryOf(l) # {})

LineIsOfCategory(line, files) ==
    LET n == Cardinality(files)
        shown == Len(line.names)
    IN  /\ line.count = n
        /\ shown = (IF n < 5 THEN n ELSE 5)
        /\ \A i \in 1..shown : \E p \in files : PathName(p) = line.names[i]
        /\ \A i \in 1..(shown - 1) : StrLeq(line.names[i], line.names[i + 1])
        /\ \A p \in files :
               \/ \E i \in 1..shown : line.names[i] = PathName(p)
               \/ StrLeq(line.names[shown], PathName(p))
        /\ line.overflow = (IF n > 5 THEN n - 5 ELSE 0)

C25_SummaryFormat ==
    delta_summary # <<>> =>
        IF modified = {} /\ added = {} /\ deleted = {}
        THEN delta_summary = <<NoChangesLine>>
        ELSE /\ Len(delta_summary) = Len(NonEmptyCategories)
             /\ \A i \in 1..Len(delta_summary) :
                    /\ delta_summary[i].label = NonEmptyCategories[i]
                    /\ LineIsOfCategory(delta_summary[i],
                                        CategoryOf(NonEmptyCategories[i]))

\* a digest of three lines whose first category overflows
C25_Witness ==
    /\ Len(delta_summary) = 3
    /\ delta_summary[1].label = "Modified"
    /\ delta_summary[1].count = 7
    /\ delta_summary[1].overflow = 2
    /\ Len(delta_summary[1].names) = 5
    /\ delta_summary[3].label = "Deleted"

(***************************************************************************)
(* C26: a constructed AssemblerConfig has classified every entry of the    *)
(* list it was given: an entry starting with "." is an extension as it is, *)
(* an entry with an inner dot, or without a dot and starting with a        *)
(* lower-case letter, is an extension with a "." put before it, and an     *)
(* entry without a dot starting with an upper-case letter is an exact      *)
(* filename and no extension; every element of extensions starts with ".". *)
(***************************************************************************)
LowerLetters == {"a", "b", "c", "d", "e", "f", "o", "p", "r", "x", "y"}

HasDot(e) == \E i \in 1..Len(e) : e[i] = "."

IsExactName(e) == e # <<>> /\ ~HasDot(e) /\ e[1] \in UpperChars

C26_ExtensionClassification ==
    cfg_pc = "ready" =>
        LET others == SelectSeq(given_extensions, LAMBDA e : ~IsExactName(e))
        IN  /\ exact_filenames = SelectSeq(given_extensions, IsExactName)
            /\ Len(extensions) = Len(others)
            /\ \A i \in 1..Len(others) :
                   LET e == others[i]
                   IN  /\ (e # <<>> /\ e[1] = ".") => extensions[i] = e
                       /\ (e # <<>> /\ e[1] # "." /\
                             (HasDot(e) \/ e[1] \in LowerLetters))
                              => extensions[i] = <<".">> \o e
            /\ \A i \in 1..Len(extensions) :
                   extensions[i] # <<>> /\ extensions[i][1] = "."

\* a list with an entry of each kind was classified
C26_Witness ==
    /\ cfg_pc = "ready"
    /\ given_extensions = << <<"M", ".", "a">>, <<"M", "a">>, <<"p", "y">> >>
    /\ extensions = << <<".", "M", ".", "a">>, <<".", "p", "y">> >>
    /\ exact_filenames = << <<"M", "a">> >>

(***************************************************************************)
(* C27: the metadata assemble embeds has one entry per file process_file   *)
(* added to the table of contents: a candidate has an entry exactly when   *)
(* the delta filter let it through and it was not skipped for a read       *)
(* error or for its size, and the entry records its minute.                *)
(***************************************************************************)
MetadataKeys == {metadata_block[i].key : i \in 1..Len(metadata_block)}

C30_ChainedDeltaRuns ==
    (Len(history) >= 1 /\ d_pc \in {"done", "filtered", "assembled"}) =>
        /\ toc_entries \cap history[1].emitted = {}
        /\ history[Len(history)].unchanged \cap (modified \cup added) = {}

(***************************************************************************)
(* C28: when a rebuild with valid metadata returns, every metadata key is  *)
(* accounted for exactly once: it has at most one skip diagnostic          *)
(* (content not found, security skip, write failure), the returned count   *)
(* is the number of keys without one, so that count + skip diagnostics =   *)
(* number of keys, and every other diagnostic is a truncation warning, of  *)
(* a key that was counted.                                                 *)
(***************************************************************************)
SkipKinds == {"notfound", "security", "failed"}

SkipDiagnostics == {i \in 1..Len(errors) : errors[i].kind \in SkipKinds}

SkipDiagnosticsOf(k) == {i \in SkipDiagnostics : errors[i].key = k}

C28_RebuildAccounting ==
    (rb_pc = "returned" /\ rebuild_extract_metadata(docKind)) =>
        /\ \A k \in MetaKeys : Cardinality(SkipDiagnosticsOf(k)) <= 1
        /\ created_count = Cardinality({k \in MetaKeys : SkipDiagnosticsOf(k) = {}})
        /\ created_count + Cardinality(SkipDiagnostics) = Len(files_meta)
        /\ \A i \in 1..Len(errors) :
               i \notin SkipDiagnostics =>
                   /\ errors[i].kind = "truncated"
                   /\ errors[i].key \in MetaKeys
                   /\ SkipDiagnosticsOf(errors[i].key) = {}

\* a rebuild of two keys: one written with a truncation warning, one failed
C28_Witness ==
    /\ rb_pc = "returned"
    /\ Len(files_meta) = 2
    /\ created_count = 1
    /\ Len(errors) = 2
    /\ \E i, j \in 1..Len(errors) :
           errors[i].kind = "truncated" /\ errors[j].kind = "failed"

(***************************************************************************)
(* C29: once get_delta and rebuild have both decoded the document, the     *)
(* metadata is present for the one (a non-empty snapshot) exactly when it  *)
(* is present for the other (_extract_metadata returned True), and the     *)
(* keys of the snapshot are the keys rebuild is going to visit.            *)
(***************************************************************************)
ReconcilerHasMetadata == snapshot # <<>>

RebuilderHasMetadata == rb_pc \in {"loop", "raised"}

C29_DecoderAgreement ==
    (d_pc # "idle" /\ rb_pc # "idle") =>
        /\ ReconcilerHasMetadata <=> RebuilderHasMetadata
        /\ SnapKeys(snapshot) = {todo[i] : i \in 1..Len(todo)}

====
